---- MODULE Spec2Model ----
(***************************************************************************)
(* Model of the player-log binary codec (src/src/player_log.rs):           *)
(* PlayerLogBuilder::build / from_log, PlayerLog::serialize / deserialize  *)
(* and PlayerLogSerializer::serialize_many / deserialize_many.             *)
(*                                                                         *)
(* Bytes are the integers 0..255.  A Rust String is the sequence of its    *)
(* Unicode scalar values; as_bytes is the UTF-8 encoding and from_utf8 the *)
(* validating UTF-8 decoder.  Option<T> is a sequence of length 0 or 1.    *)
(***************************************************************************)
EXTENDS Integers, Sequences, FiniteSets, TLC

VARIABLES
    pc,        \* position of the caller in the pipeline being exercised
    origin,    \* how the PlayerLog under test was made: "build" or "literal"
    builder,   \* the PlayerLogBuilder given to build
    buildErr,  \* error message of build ("" when it succeeded)
    log,       \* the PlayerLog under test
    before,    \* contents of the writer when serialize was called
    writer,    \* the writer handed to serialize
    serErr,    \* error message of serialize
    input,     \* the bytes handed to deserialize
    decoded,   \* result of deserialize
    rebuilt,   \* result of from_log
    logs,      \* the slice handed to serialize_many
    parts,     \* the chunks of logs
    iterNext,  \* index of the next chunk the bridged iterator yields
    local,     \* per-worker list of finished chunk buffers
    wpc,       \* per-worker position: "idle", "take", "check" or "done"
    failed,    \* the error saved by collect::<Result<_>>
    ret,       \* result of serialize_many
    many       \* result of deserialize_many

vars == <<pc, origin, builder, buildErr, log, before, writer, serErr, input,
          decoded, rebuilt, logs, parts, iterNext, local, wpc, failed, ret, many>>

recordVars == <<origin, builder, buildErr, log, before, writer, serErr, input,
                decoded, rebuilt>>
recordVarsButWriter == <<origin, builder, buildErr, log, before, serErr, input,
                         decoded, rebuilt>>
batchVars == <<logs, parts, iterNext, local, wpc, failed, ret, many>>

-----------------------------------------------------------------------------
(* Bounds of the exploration *)

MaxNameChars == 18     \* longest run of one character in a generated name
MaxHostChars == 257    \* longest generated host name, in characters
MaxLiteralLen == 257   \* longest byte field of a hand-made PlayerLog
MaxBatch == 4          \* longest slice handed to the parallel encoder
NumThreads == 3        \* leaves the bridged iterator is split into
MaxLen == 60           \* longest slice handed to the partition alone

-----------------------------------------------------------------------------
(* Option, bytes, bit operations *)

None == <<>>
Some(x) == <<x>>
IsSome(o) == Len(o) = 1
Unwrap(o) == o[1]

Repeat(c, k) == [i \in 1..k |-> c]

RECURSIVE BitAnd(_, _)
BitAnd(a, b) ==
    IF a = 0 \/ b = 0 THEN 0
    ELSE (IF a % 2 = 1 /\ b % 2 = 1 THEN 1 ELSE 0) + 2 * BitAnd(a \div 2, b \div 2)

AsU8(n) == n % 256

PLAYER_AUTH == 1
IS_ONLINE == 2
ALL_FLAGS == PLAYER_AUTH + IS_ONLINE

from_bits_retain(bits) == bits

(* Faulty variant: unknown bits are dropped instead of refused (from_bits_truncate). *)
from_bits_truncate(bits) == Some(BitAnd(bits, ALL_FLAGS))

from_bits(bits) == IF BitAnd(bits, 255 - ALL_FLAGS) = 0 THEN Some(bits) ELSE None

contains(flags, flag) == BitAnd(flags, flag) = flag

-----------------------------------------------------------------------------
(* Strings: String::len, as_bytes, String::from_utf8 *)

Utf8Char(c) ==
    IF c < 128 THEN <<c>>
    ELSE IF c < 2048 THEN <<192 + (c \div 64), 128 + (c % 64)>>
    ELSE IF c < 65536 THEN <<224 + (c \div 4096), 128 + ((c \div 64) % 64), 128 + (c % 64)>>
    ELSE <<240 + (c \div 262144), 128 + ((c \div 4096) % 64), 128 + ((c \div 64) % 64),
           128 + (c % 64)>>

(* Encoding and decoding split the range in halves: the result is that of the
   left-to-right scan, at a recursion depth of log2 of the length. *)
RECURSIVE Utf8Range(_, _, _)
Utf8Range(s, lo, hi) ==
    IF lo > hi THEN <<>>
    ELSE IF lo = hi THEN Utf8Char(s[lo])
    ELSE LET mid == (lo + hi) \div 2 IN Utf8Range(s, lo, mid) \o Utf8Range(s, mid + 1, hi)

as_bytes(s) == Utf8Range(s, 1, Len(s))

(* Faulty variant: the length in characters (chars().count()) instead of bytes. *)
CharCount(s) == Len(s)

StrLen(s) == Len(as_bytes(s))

IsCont(b) == b >= 128 /\ b < 192

SeqWidth(b) ==
    IF b < 128 THEN 1
    ELSE IF b >= 194 /\ b < 224 THEN 2
    ELSE IF b >= 224 /\ b < 240 THEN 3
    ELSE IF b >= 240 /\ b < 245 THEN 4
    ELSE 0

Scalar(bs, i, w) ==
    IF w = 1 THEN bs[i]
    ELSE IF w = 2 THEN (bs[i] - 192) * 64 + (bs[i + 1] - 128)
    ELSE IF w = 3 THEN (bs[i] - 224) * 4096 + (bs[i + 1] - 128) * 64 + (bs[i + 2] - 128)
    ELSE (bs[i] - 240) * 262144 + (bs[i + 1] - 128) * 4096 + (bs[i + 2] - 128) * 64
         + (bs[i + 3] - 128)

ValidScalar(c, w) ==
    /\ c >= 0
    /\ c < 1114112
    /\ ~(c >= 55296 /\ c < 57344)
    /\ Len(Utf8Char(c)) = w

(* A byte that is no continuation byte starts a character: it must be a lead byte
   followed by exactly its continuation bytes, encoding a scalar in shortest form. *)
GoodStart(bs, i) ==
    LET w == SeqWidth(bs[i]) IN
    /\ w > 0
    /\ i + w - 1 <= Len(bs)
    /\ \A k \in 1..(w - 1) : IsCont(bs[i + k])
    /\ (i + w <= Len(bs) => ~IsCont(bs[i + w]))
    /\ ValidScalar(Scalar(bs, i, w), w)

ValidUtf8(bs) ==
    /\ (Len(bs) > 0 => ~IsCont(bs[1]))
    /\ \A i \in 1..Len(bs) : ~IsCont(bs[i]) => GoodStart(bs, i)

RECURSIVE ScalarsIn(_, _, _)
ScalarsIn(bs, lo, hi) ==
    IF lo > hi THEN <<>>
    ELSE IF lo = hi
         THEN (IF IsCont(bs[lo]) THEN <<>> ELSE <<Scalar(bs, lo, SeqWidth(bs[lo]))>>)
    ELSE LET mid == (lo + hi) \div 2 IN ScalarsIn(bs, lo, mid) \o ScalarsIn(bs, mid + 1, hi)

from_utf8(bs) == IF ValidUtf8(bs) THEN Some(ScalarsIn(bs, 1, Len(bs))) ELSE None

(* Faulty variant: one byte too few is kept. *)
truncate_short(v, n) == IF Len(v) >= n THEN SubSeq(v, 1, n - 1) ELSE v

truncate(v, n) == IF Len(v) > n THEN SubSeq(v, 1, n) ELSE v

-----------------------------------------------------------------------------
(* Version registry *)

VERSIONS ==
    ("1.8" :> 1) @@ ("1.9" :> 2) @@ ("1.10" :> 3) @@ ("1.11" :> 4) @@ ("1.12" :> 5)
    @@ ("1.13" :> 6) @@ ("1.14" :> 7) @@ ("1.15" :> 8) @@ ("1.16" :> 9)
    @@ ("1.17" :> 10) @@ ("1.18" :> 11) @@ ("1.19" :> 12) @@ ("1.20" :> 13)
    @@ ("1.21" :> 14)

(* Faulty variant: the position in the table counted from zero. *)
VersionsGetZeroBased(label) ==
    IF label \in DOMAIN VERSIONS THEN Some(VERSIONS[label] - 1) ELSE None

VersionsGet(label) == IF label \in DOMAIN VERSIONS THEN Some(VERSIONS[label]) ELSE None

VersionsFind(code) ==
    IF \E l \in DOMAIN VERSIONS : VERSIONS[l] = code
    THEN Some(CHOOSE l \in DOMAIN VERSIONS : VERSIONS[l] = code)
    ELSE None

-----------------------------------------------------------------------------
(* The two record types *)

NullBuilder ==
    [flags |-> 0, player_uuid |-> None, player_name |-> <<>>, player_ip |-> <<0, 0, 0, 0>>,
     server_ip |-> <<0, 0, 0, 0>>, server_port |-> 0, server_domain |-> <<>>,
     server_version |-> ""]

NullLog ==
    [binary_version |-> 0, flags |-> 0, player_uuid |-> None, player_name |-> <<>>,
     player_ip |-> <<0, 0, 0, 0>>, server_ip |-> <<0, 0, 0, 0>>, server_port |-> 0,
     server_domain |-> <<>>, server_version |-> 0]

Ok(v) == [err |-> "", val |-> v]
ErrLog(e) == [err |-> e, val |-> NullLog]
ErrBuilder(e) == [err |-> e, val |-> NullBuilder]

NAME_LIMIT == 16
DOMAIN_LIMIT == 255

build(self) ==
    IF StrLen(self.player_name) > NAME_LIMIT THEN ErrLog("Player name too long")
    ELSE LET server_version == VersionsGet(self.server_version) IN
         IF ~IsSome(server_version) THEN ErrLog("invalid server version")
         ELSE Ok([binary_version |-> 1,
                  flags |-> self.flags,
                  player_uuid |-> self.player_uuid,
                  player_name |-> as_bytes(self.player_name),
                  player_ip |-> self.player_ip,
                  server_ip |-> self.server_ip,
                  server_port |-> self.server_port,
                  server_domain |-> truncate(as_bytes(self.server_domain), DOMAIN_LIMIT),
                  server_version |-> Unwrap(server_version)])

from_log(l) ==
    LET flags == from_bits(l.flags)
        player_name == from_utf8(l.player_name)
        server_domain == from_utf8(l.server_domain)
        server_version == VersionsFind(l.server_version)
    IN  IF ~IsSome(flags) THEN ErrBuilder("invalid flags")
        ELSE IF ~IsSome(player_name) THEN ErrBuilder("invalid player name")
        ELSE IF ~IsSome(server_domain) THEN ErrBuilder("invalid server domain")
        ELSE IF ~IsSome(server_version) THEN ErrBuilder("invalid server version")
        ELSE Ok([flags |-> Unwrap(flags),
                 player_uuid |-> l.player_uuid,
                 player_name |-> Unwrap(player_name),
                 player_ip |-> l.player_ip,
                 server_ip |-> l.server_ip,
                 server_port |-> l.server_port,
                 server_domain |-> Unwrap(server_domain),
                 server_version |-> Unwrap(server_version)])

-----------------------------------------------------------------------------
(* Single-record codec *)

(* Faulty variant: little-endian port. *)
write_u16_le(n) == <<n % 256, n \div 256>>

write_u16_be(n) == <<n \div 256, n % 256>>
read_u16_be(bs) == bs[1] * 256 + bs[2]

(* Faulty variant: a missing identity is skipped silently instead of failing. *)
serialize_skip_missing(self, w) ==
    LET w1 == w \o <<self.binary_version, self.flags>>
        w2 == IF contains(from_bits_retain(self.flags), IS_ONLINE) /\ IsSome(self.player_uuid)
              THEN w1 \o Unwrap(self.player_uuid) ELSE w1
    IN [err |-> "",
        writer |-> w2 \o <<AsU8(Len(self.player_name))>> \o self.player_name
                      \o self.player_ip \o self.server_ip
                      \o write_u16_be(self.server_port)
                      \o <<AsU8(Len(self.server_domain))>> \o self.server_domain
                      \o <<self.server_version>>]

serialize(self, w) ==
    LET w1 == w \o <<self.binary_version, self.flags>> IN
    IF contains(from_bits_retain(self.flags), IS_ONLINE) /\ ~IsSome(self.player_uuid)
    THEN [err |-> "missing player uuid", writer |-> w1]
    ELSE LET w2 == IF contains(from_bits_retain(self.flags), IS_ONLINE)
                   THEN w1 \o Unwrap(self.player_uuid) ELSE w1
         IN [err |-> "",
             writer |-> w2 \o <<AsU8(Len(self.player_name))>> \o self.player_name
                           \o self.player_ip \o self.server_ip
                           \o write_u16_be(self.server_port)
                           \o <<AsU8(Len(self.server_domain))>> \o self.server_domain
                           \o <<self.server_version>>]

(* A read position p is the number of bytes already consumed. *)
Avail(data, p, n) == p + n <= Len(data)
Take(data, p, n) == SubSeq(data, p + 1, p + n)

DecErr(e, p) == [err |-> e, val |-> NullLog, pos |-> p]

deserialize_at(data, p0) ==
    IF ~Avail(data, p0, 1) THEN DecErr("failed to fill whole buffer", p0)
    ELSE LET binary_version == data[p0 + 1] IN
    IF binary_version # 1 THEN DecErr("invalid binary version", p0 + 1)
    ELSE IF ~Avail(data, p0 + 1, 1) THEN DecErr("failed to fill whole buffer", p0 + 1)
    ELSE LET flags == data[p0 + 2]
             parsed_flags == from_bits(flags) IN
    IF ~IsSome(parsed_flags) THEN DecErr("invalid flags", p0 + 2)
    ELSE LET online == contains(Unwrap(parsed_flags), IS_ONLINE)
             p1 == p0 + 2 + (IF online THEN 16 ELSE 0) IN
    IF online /\ ~Avail(data, p0 + 2, 16) THEN DecErr("failed to fill whole buffer", p0 + 2)
    ELSE IF ~Avail(data, p1, 1) THEN DecErr("failed to fill whole buffer", p1)
    ELSE LET name_len == data[p1 + 1]
             p2 == p1 + 1 + name_len IN
    IF ~Avail(data, p1 + 1, name_len) THEN DecErr("failed to fill whole buffer", p1 + 1)
    ELSE IF ~Avail(data, p2, 4) THEN DecErr("failed to fill whole buffer", p2)
    ELSE IF ~Avail(data, p2 + 4, 4) THEN DecErr("failed to fill whole buffer", p2 + 4)
    ELSE IF ~Avail(data, p2 + 8, 2) THEN DecErr("failed to fill whole buffer", p2 + 8)
    ELSE IF ~Avail(data, p2 + 10, 1) THEN DecErr("failed to fill whole buffer", p2 + 10)
    ELSE LET domain_len == data[p2 + 11]
             p3 == p2 + 11 + domain_len IN
    IF ~Avail(data, p2 + 11, domain_len) THEN DecErr("failed to fill whole buffer", p2 + 11)
    ELSE IF ~Avail(data, p3, 1) THEN DecErr("failed to fill whole buffer", p3)
    ELSE [err |-> "",
          val |-> [binary_version |-> binary_version,
                   flags |-> flags,
                   player_uuid |-> IF online THEN Some(Take(data, p0 + 2, 16)) ELSE None,
                   player_name |-> Take(data, p1 + 1, name_len),
                   player_ip |-> Take(data, p2, 4),
                   server_ip |-> Take(data, p2 + 4, 4),
                   server_port |-> read_u16_be(Take(data, p2 + 8, 2)),
                   server_domain |-> Take(data, p2 + 11, domain_len),
                   server_version |-> data[p3 + 1]],
          pos |-> p3 + 1]

deserialize(data) == deserialize_at(data, 0)

-----------------------------------------------------------------------------
(* Inputs of the record pipeline *)

(* 'A' (one byte in UTF-8), U+00E9 (two bytes), U+20AC (three bytes) *)
Chars == <<65, 233, 8364>>

Uuid1 == [i \in 1..16 |-> i]

AliceName == <<65, 108, 105, 99, 101>>
AliceHost == <<112, 108, 97, 121, 46, 101, 120, 97, 109, 112, 108, 101, 46, 99, 111, 109>>

Alice ==
    [flags |-> IS_ONLINE, player_uuid |-> Some(Uuid1), player_name |-> AliceName,
     player_ip |-> <<1, 2, 3, 4>>, server_ip |-> <<5, 6, 7, 8>>, server_port |-> 25565,
     server_domain |-> AliceHost, server_version |-> "1.20"]

FlagInputs == {0, 1, 2, 3, 4, 255}
UuidInputs == {None, Some(Uuid1)}
NameInputs ==
    {Repeat(c, k) \o t : c \in {Chars[1], Chars[2]}, k \in 0..MaxNameChars,
                         t \in {<<>>, <<Chars[3]>>}}
HostLens == {0, 16, 127, 128, DOMAIN_LIMIT, DOMAIN_LIMIT + 1, MaxHostChars}
HostInputs == {Repeat(c, k) : c \in {Chars[1], Chars[2]}, k \in HostLens}
Endpoints ==
    {[player_ip |-> <<1, 2, 3, 4>>, server_ip |-> <<5, 6, 7, 8>>, server_port |-> 25565],
     [player_ip |-> <<255, 0, 0, 1>>, server_ip |-> <<10, 0, 0, 255>>, server_port |-> 80]}
VersionInputs == {"1.8", "1.21", "1.99"}

MkBuilders(names, hosts) ==
    {[flags |-> f, player_uuid |-> u, player_name |-> n, player_ip |-> e.player_ip,
      server_ip |-> e.server_ip, server_port |-> e.server_port, server_domain |-> h,
      server_version |-> v] :
        f \in FlagInputs, u \in UuidInputs, n \in names, e \in Endpoints,
        h \in hosts, v \in VersionInputs}

(* Names and host names are independent fields: each is swept with the other short. *)
BuilderInputs ==
    {Alice} \cup MkBuilders(NameInputs, {AliceHost})
            \cup MkBuilders({<<>>, AliceName}, HostInputs)

(* PlayerLog has public fields: a caller can also write one as a struct literal. *)
LiteralLens == {0, 1, NAME_LIMIT + 1, DOMAIN_LIMIT, DOMAIN_LIMIT + 1, MaxLiteralLen}
LiteralFields == {Repeat(b, k) : b \in {65, 255}, k \in LiteralLens}
MkLogs(names, hosts) ==
    {[binary_version |-> 1, flags |-> f, player_uuid |-> u, player_name |-> n,
      player_ip |-> <<1, 2, 3, 4>>, server_ip |-> <<5, 6, 7, 8>>, server_port |-> 25565,
      server_domain |-> h, server_version |-> v] :
        f \in {0, 2, 4}, u \in UuidInputs, n \in names, h \in hosts, v \in {0, 13}}

LogInputs == MkLogs(LiteralFields, {<<>>}) \cup MkLogs({<<>>}, LiteralFields)

PriorWriters == {<<>>, <<171>>}

-----------------------------------------------------------------------------
(* The record pipeline: build or literal, then serialize and deserialize, or from_log *)

RecordIdle ==
    /\ origin = ""
    /\ builder = NullBuilder
    /\ buildErr = ""
    /\ log = NullLog
    /\ before = <<>>
    /\ serErr = ""
    /\ rebuilt = ErrBuilder("")

BatchIdle ==
    /\ parts = <<>>
    /\ iterNext = 1
    /\ local = [w \in 1..NumThreads |-> <<>>]
    /\ wpc = [w \in 1..NumThreads |-> "idle"]
    /\ failed = FALSE
    /\ ret = [err |-> "", bytes |-> <<>>]
    /\ many = [err |-> "", val |-> <<>>]

Init ==
    /\ pc = "start"
    /\ RecordIdle
    /\ writer = <<>>
    /\ input = <<>>
    /\ decoded = DecErr("", 0)
    /\ logs = <<>>
    /\ BatchIdle

Build ==
    /\ pc = "start"
    /\ \E b \in BuilderInputs :
          LET r == build(b) IN
          /\ builder' = b
          /\ buildErr' = r.err
          /\ log' = r.val
          /\ pc' = IF r.err = "" THEN "built" ELSE "rejected"
    /\ origin' = "build"
    /\ UNCHANGED <<before, writer, serErr, input, decoded, rebuilt>>
    /\ UNCHANGED batchVars

Literal ==
    /\ pc = "start"
    /\ \E l \in LogInputs : log' = l
    /\ origin' = "literal"
    /\ pc' = "built"
    /\ UNCHANGED <<builder, buildErr, before, writer, serErr, input, decoded, rebuilt>>
    /\ UNCHANGED batchVars

Serialize ==
    /\ pc = "built"
    /\ \E w \in PriorWriters :
          LET r == serialize(log, w) IN
          /\ before' = w
          /\ writer' = r.writer
          /\ serErr' = r.err
    /\ pc' = "serialized"
    /\ UNCHANGED <<origin, builder, buildErr, log, input, decoded, rebuilt>>
    /\ UNCHANGED batchVars

(* The reader is a cursor standing at the first byte the call wrote. *)
Written == SubSeq(writer, Len(before) + 1, Len(writer))

Deserialize ==
    /\ pc = "serialized"
    /\ serErr = ""
    /\ input' = Written
    /\ decoded' = deserialize(Written)
    /\ pc' = "decoded"
    /\ UNCHANGED <<origin, builder, buildErr, log, before, writer, serErr, rebuilt>>
    /\ UNCHANGED batchVars

FromLog ==
    /\ pc = "built"
    /\ rebuilt' = from_log(log)
    /\ pc' = "rebuilt"
    /\ UNCHANGED <<origin, builder, buildErr, log, before, writer, serErr, input, decoded>>
    /\ UNCHANGED batchVars

Next == Build \/ Literal \/ Serialize \/ Deserialize \/ FromLog

Spec == Init /\ [][Next]_vars

-----------------------------------------------------------------------------
(* deserialize on arbitrary input: encodings cut short, with the version byte
   or the flags byte overwritten *)

MaxDecodeField == 2    \* longest name and host name of the encodings tampered with

DecodeLogs ==
    {[binary_version |-> 1, flags |-> f, player_uuid |-> IF f >= 2 THEN Some(Uuid1) ELSE None,
      player_name |-> Repeat(65, n), player_ip |-> <<1, 2, 3, 4>>,
      server_ip |-> <<5, 6, 7, 8>>, server_port |-> 25565,
      server_domain |-> Repeat(66, h), server_version |-> 13] :
        f \in {0, 1, 2, 3}, n \in 0..MaxDecodeField, h \in 0..MaxDecodeField}

Overwrite(bs, i, v) == [k \in 1..Len(bs) |-> IF k = i /\ v >= 0 THEN v ELSE bs[k]]

(* -1 keeps the byte. *)
VersionBytes == {-1, 0, 2, 255}
FlagBytes == {-1, 4, 6, 128, 255}

Tampered(e) ==
    {Overwrite(Overwrite(SubSeq(e, 1, k), 1, v), 2, f) :
        k \in 0..Len(e), v \in VersionBytes, f \in FlagBytes}

DecodeInit ==
    /\ pc = "serialized"
    /\ RecordIdle
    /\ \E l \in DecodeLogs :
          /\ writer = serialize(l, <<>>).writer
          /\ input \in Tampered(writer)
    /\ decoded = DecErr("", 0)
    /\ logs = <<>>
    /\ BatchIdle

DeserializeInput ==
    /\ pc = "serialized"
    /\ decoded' = deserialize(input)
    /\ pc' = "decoded"
    /\ UNCHANGED <<origin, builder, buildErr, log, before, writer, serErr, input, rebuilt>>
    /\ UNCHANGED batchVars

DecodeNext == DeserializeInput

DecodeSpec == DecodeInit /\ [][DecodeNext]_vars

-----------------------------------------------------------------------------
(* Batch codec *)

CHUNK_DIVISOR == 10

Max(a, b) == IF a >= b THEN a ELSE b

ChunkSize(n) == Max(n \div CHUNK_DIVISOR, 1)

(* Faulty variant: the shorter last chunk is dropped (chunks_exact). *)
chunks_exact(s, size) ==
    [i \in 1..(Len(s) \div size) |-> SubSeq(s, (i - 1) * size + 1, i * size)]

(* slice::chunks: consecutive runs of size elements, the last one possibly shorter *)
chunks(s, size) ==
    [i \in 1..((Len(s) + size - 1) \div size) |->
        SubSeq(s, (i - 1) * size + 1, IF i * size <= Len(s) THEN i * size ELSE Len(s))]

RECURSIVE Flatten(_)
Flatten(ss) == IF ss = <<>> THEN <<>> ELSE Head(ss) \o Flatten(Tail(ss))

RECURSIVE write_uint_be(_, _)
write_uint_be(n, width) ==
    IF width = 0 THEN <<>> ELSE Append(write_uint_be(n \div 256, width - 1), n % 256)

RECURSIVE read_uint_be(_)
read_uint_be(bs) ==
    IF bs = <<>> THEN 0 ELSE 256 * read_uint_be(SubSeq(bs, 1, Len(bs) - 1)) + bs[Len(bs)]

(* usize -> u64 loses nothing on the 64-bit targets; a slice length is below 2^64 *)
write_u64_be(n) == write_uint_be(n, 8)

(* c.iter().try_for_each(|log| log.serialize(&mut buf)) *)
RECURSIVE EncodeFrom(_, _, _)
EncodeFrom(c, i, buf) ==
    IF i > Len(c) THEN [err |-> "", buf |-> buf]
    ELSE LET r == serialize(c[i], buf) IN
         IF r.err # "" THEN [err |-> r.err, buf |-> r.writer]
         ELSE EncodeFrom(c, i + 1, r.writer)

EncodeChunk(c) == EncodeFrom(c, 1, <<>>)

RECURSIVE DecodeFrom(_, _, _, _)
DecodeFrom(data, p, left, acc) ==
    IF left = 0 THEN [err |-> "", val |-> acc]
    ELSE LET r == deserialize_at(data, p) IN
         IF r.err # "" THEN [err |-> r.err, val |-> <<>>]
         ELSE DecodeFrom(data, r.pos, left - 1, Append(acc, r.val))

deserialize_many(data) ==
    IF ~Avail(data, 0, 8) THEN [err |-> "failed to fill whole buffer", val |-> <<>>]
    ELSE DecodeFrom(data, 8, read_uint_be(Take(data, 0, 8)), <<>>)

(* Batch inputs: record i is told apart by its name and port; the records in bad
   have the "is online" bit set and no identity. *)
BatchLog(i, bad) ==
    [binary_version |-> 1,
     flags |-> IF bad THEN IS_ONLINE ELSE IF i % 2 = 1 THEN 3 ELSE 1,
     player_uuid |-> IF ~bad /\ i % 2 = 1 THEN Some(Uuid1) ELSE None,
     player_name |-> <<64 + i>>, player_ip |-> <<1, 2, 3, 4>>, server_ip |-> <<5, 6, 7, 8>>,
     server_port |-> 25000 + i, server_domain |-> Repeat(97, i % 3), server_version |-> 13]

BatchOf(n, B) == [i \in 1..n |-> BatchLog(i, i \in B)]

(* Twice the divisor is the shortest slice whose chunks hold two records. *)
LongBatch == 2 * CHUNK_DIVISOR

BatchInputs ==
    {BatchOf(n, B) : n \in 0..MaxBatch, B \in SUBSET (1..MaxBatch)}
    \cup {BatchOf(LongBatch, B) : B \in {{2}, {3}, {2, LongBatch}}}

BatchInit ==
    /\ pc = "start"
    /\ RecordIdle
    /\ writer = <<>>
    /\ input = <<>>
    /\ decoded = DecErr("", 0)
    /\ logs \in BatchInputs
    /\ BatchIdle

(* serialization_helper up to the parallel iterator: the count is written and the
   chunk iterator is bridged onto the pool. *)
Begin ==
    /\ pc = "start"
    /\ writer' = writer \o write_u64_be(Len(logs))
    /\ parts' = chunks(logs, ChunkSize(Len(logs)))
    /\ iterNext' = 1
    /\ wpc' = [w \in 1..NumThreads |-> "take"]
    /\ pc' = "par"
    /\ UNCHANGED recordVarsButWriter
    /\ UNCHANGED <<logs, local, failed, ret, many>>

(* One turn of a leaf's fold: take the next chunk under the iterator's lock, encode
   it, and either keep the buffer or save the error. *)
WorkerTake(w) ==
    /\ pc = "par"
    /\ wpc[w] = "take"
    /\ IF iterNext > Len(parts)
       THEN /\ wpc' = [wpc EXCEPT ![w] = "done"]
            /\ UNCHANGED <<iterNext, local, failed>>
       ELSE LET r == EncodeChunk(parts[iterNext]) IN
            /\ iterNext' = iterNext + 1
            /\ wpc' = [wpc EXCEPT ![w] = "check"]
            /\ IF r.err = ""
               THEN /\ local' = [local EXCEPT ![w] = Append(@, r.buf)]
                    /\ UNCHANGED failed
               ELSE /\ failed' = TRUE
                    /\ UNCHANGED local
    /\ UNCHANGED recordVars
    /\ UNCHANGED <<pc, logs, parts, ret, many>>

(* folder.full(): a leaf stops once an error has been saved. *)
WorkerCheck(w) ==
    /\ pc = "par"
    /\ wpc[w] = "check"
    /\ wpc' = [wpc EXCEPT ![w] = IF failed THEN "done" ELSE "take"]
    /\ UNCHANGED recordVars
    /\ UNCHANGED <<pc, logs, parts, iterNext, local, failed, ret, many>>

(* collect joins the leaves in tree order; serialization_helper writes the buffers
   and serialize_many returns the writer, or the saved error and no writer. *)
Gather ==
    /\ pc = "par"
    /\ \A w \in 1..NumThreads : wpc[w] = "done"
    /\ IF failed
       THEN /\ ret' = [err |-> "missing player uuid", bytes |-> <<>>]
            /\ UNCHANGED writer
       ELSE LET log_buffers == Flatten(local)
                out == writer \o Flatten(log_buffers) IN
            /\ writer' = out
            /\ ret' = [err |-> "", bytes |-> out]
    /\ pc' = "returned"
    /\ UNCHANGED recordVarsButWriter
    /\ UNCHANGED <<logs, parts, iterNext, local, wpc, failed, many>>

DeserializeMany ==
    /\ pc = "returned"
    /\ ret.err = ""
    /\ many' = deserialize_many(ret.bytes)
    /\ pc' = "checked"
    /\ UNCHANGED recordVars
    /\ UNCHANGED <<logs, parts, iterNext, local, wpc, failed, ret>>

BatchNext ==
    \/ Begin
    \/ \E w \in 1..NumThreads : WorkerTake(w)
    \/ \E w \in 1..NumThreads : WorkerCheck(w)
    \/ Gather
    \/ DeserializeMany

BatchSpec == BatchInit /\ [][BatchNext]_vars

-----------------------------------------------------------------------------
(* The partition alone, on slices of every length up to MaxLen *)

ChunkInit ==
    /\ pc = "start"
    /\ RecordIdle
    /\ writer = <<>>
    /\ input = <<>>
    /\ decoded = DecErr("", 0)
    /\ logs \in {BatchOf(n, {}) : n \in 0..MaxLen}
    /\ BatchIdle

Partition ==
    /\ pc = "start"
    /\ parts' = chunks(logs, ChunkSize(Len(logs)))
    /\ pc' = "chunked"
    /\ UNCHANGED recordVars
    /\ UNCHANGED <<logs, iterNext, local, wpc, failed, ret, many>>

ChunkNext == Partition

ChunkSpec == ChunkInit /\ [][ChunkNext]_vars

-----------------------------------------------------------------------------
(* Properties *)

HasOnlineBit(f) == (f \div 2) % 2 = 1
NoReservedBits(f) == f \in 0..3

(* Number of bytes of the UTF-8 form of a string, counted per character. *)
NameBytes(s) ==
    Len(s) + Cardinality({i \in 1..Len(s) : s[i] >= 128})
           + Cardinality({i \in 1..Len(s) : s[i] >= 2048})
           + Cardinality({i \in 1..Len(s) : s[i] >= 65536})

MissingIdentity(l) == HasOnlineBit(l.flags) /\ l.player_uuid = None

(* C1 as stated: whenever serialize_many succeeds on a non-empty batch,
   deserialize_many of its output returns the same records in the same order,
   whatever the order in which the chunk workers ran. *)
C1_BatchOrderPreserved ==
    (pc = "checked" /\ Len(logs) > 0) => (many.err = "" /\ many.val = logs)

(* C2 as stated: every record returned by build on which serialize succeeds
   decodes back to an equal record. *)
C2_Original ==
    (pc = "decoded" /\ origin = "build") => (decoded.err = "" /\ decoded.val = log)

(* C2 amended: every record returned by build whose flags byte has no reserved bit
   and whose identity is present only with the "is online" bit, and on which
   serialize succeeds, decodes back to a record equal in every field. *)
C2_RoundTrip ==
    (/\ pc = "decoded"
     /\ origin = "build"
     /\ NoReservedBits(log.flags)
     /\ (log.player_uuid # None => HasOnlineBit(log.flags)))
    => (decoded.err = "" /\ decoded.val = log /\ decoded.pos = Len(input))

C2_Witness ==
    /\ pc = "decoded"
    /\ origin = "build"
    /\ log.flags = 3
    /\ log.player_uuid = Some(Uuid1)
    /\ Len(log.server_domain) = DOMAIN_LIMIT
    /\ decoded.err = ""
    /\ decoded.val = log

(* C3 as stated: from_log of build(v) returns v whenever build succeeds. *)
C3_Original ==
    (pc = "rebuilt" /\ origin = "build") => (rebuilt.err = "" /\ rebuilt.val = builder)

(* C3 amended: from_log of build(v) returns a record equal to v in every field
   whenever build succeeds, the host name of v is at most 255 bytes long and the
   flags of v hold no reserved bit. *)
C3_RoundTrip ==
    (/\ pc = "rebuilt"
     /\ origin = "build"
     /\ NameBytes(builder.server_domain) <= 255
     /\ NoReservedBits(builder.flags))
    => (rebuilt.err = "" /\ rebuilt.val = builder)

C3_Witness ==
    /\ pc = "rebuilt"
    /\ origin = "build"
    /\ builder.flags = 3
    /\ NameBytes(builder.server_domain) = 255
    /\ rebuilt.err = ""
    /\ rebuilt.val = builder

(* C4 as stated: the batch encoder cuts n records into at most 10 contiguous
   chunks, none empty, never more chunks than records, covering every record
   exactly once in order. *)
C4_Original ==
    pc = "chunked" =>
        /\ Len(parts) <= 10
        /\ \A i \in 1..Len(parts) : Len(parts[i]) >= 1
        /\ Len(parts) <= Len(logs)
        /\ Flatten(parts) = logs

(* C4 amended: the batch encoder cuts n records into at most 19 contiguous
   chunks, none empty, never more chunks than records, covering every record
   exactly once in order. *)
C4_Partition ==
    pc = "chunked" =>
        /\ Len(parts) <= 19
        /\ \A i \in 1..Len(parts) : Len(parts[i]) >= 1
        /\ Len(parts) <= Len(logs)
        /\ Flatten(parts) = logs

C4_Witness ==
    /\ pc = "chunked"
    /\ Len(logs) = 19
    /\ Len(parts) = 19

AliceBytesUpToHost ==
    <<1, 2>> \o Uuid1 \o <<5>> \o AliceName \o <<1, 2, 3, 4>> \o <<5, 6, 7, 8>> \o <<99, 221>>

(* C5 as stated: building and encoding the Alice record gives 53 bytes, the host
   name taking 1+17 of them, with byte 0 = 0x01, byte 1 = 0x02, last byte 0x0D. *)
C5_Original ==
    (pc = "serialized" /\ builder = Alice) =>
        /\ serErr = ""
        /\ Len(Written) = 53
        /\ SubSeq(Written, 1, 34) = AliceBytesUpToHost
        /\ Written[35] = 17
        /\ Written[Len(Written)] = 13

(* C5 amended: building and encoding the Alice record gives exactly 52 bytes:
   version byte 0x01, flags byte 0x02, 16 identity bytes, 1+5 name bytes, 4+4
   address bytes, 2 port bytes, 1+16 host name bytes and the version code 0x0D. *)
C5_AliceLayout ==
    (pc = "serialized" /\ builder = Alice) =>
        /\ serErr = ""
        /\ Len(Written) = 52
        /\ Written = AliceBytesUpToHost \o <<16>> \o AliceHost \o <<13>>

C5_Witness ==
    /\ pc = "serialized"
    /\ builder = Alice
    /\ before # <<>>
    /\ Len(Written) = 52

(* C6: if any record of the batch has the "is online" bit and no identity,
   serialize_many returns an error and no bytes, whichever chunk holds the record
   and however the workers interleave. *)
C6_BatchAborts ==
    (pc = "returned" /\ \E i \in 1..Len(logs) : MissingIdentity(logs[i]))
    => (ret.err # "" /\ ret.bytes = <<>>)

C6_Witness ==
    /\ pc = "returned"
    /\ Len(logs) = LongBatch
    /\ ~MissingIdentity(logs[1])
    /\ MissingIdentity(logs[2])
    /\ \E w \in 1..NumThreads : local[w] # <<>>
    /\ ret.err # ""

(* C7: deserialize fails on the first inconsistency in wire order: a first byte
   other than 1 is an unsupported version whatever follows, then a flags byte with
   any of bits 2..7 is invalid flags whatever follows, and an input that stops
   short of the full record is a truncated-input error; the untouched encoding
   decodes. *)
C7_DecodeFailsFast ==
    pc = "decoded" =>
        /\ (Len(input) >= 1 /\ input[1] # 1) => decoded.err = "invalid binary version"
        /\ (Len(input) >= 2 /\ input[1] = 1 /\ input[2] >= 4) => decoded.err = "invalid flags"
        /\ (/\ Len(input) < Len(writer)
            /\ Len(input) >= 1 => input[1] = 1
            /\ Len(input) >= 2 => input[2] < 4)
           => decoded.err = "failed to fill whole buffer"
        /\ input = writer => decoded.err = ""
        /\ decoded.err # "" => decoded.val = NullLog

C7_Witness ==
    /\ pc = "decoded"
    /\ Len(input) = 2
    /\ input[1] = 1
    /\ input[2] = 128
    /\ decoded.err = "invalid flags"

(* C8: build fails with name-too-long exactly when the UTF-8 form of the name is
   longer than 16 bytes, so no record it returns has more than 16 name bytes. *)
C8_NameLimit ==
    (pc \in {"built", "rejected"} /\ origin = "build") =>
        /\ (buildErr = "Player name too long") <=> (NameBytes(builder.player_name) > 16)
        /\ pc = "built" => Len(log.player_name) <= 16

C8_Witness ==
    /\ pc = "rejected"
    /\ NameBytes(builder.player_name) = 17
    /\ Len(builder.player_name) <= 16
    /\ buildErr = "Player name too long"

NameAt(l) == 3 + (IF HasOnlineBit(l.flags) THEN 16 ELSE 0)
HostAt(l) == NameAt(l) + Len(l.player_name) + 11

(* C9 as stated: in every successful output of serialize the length byte before
   the name (host name) equals the number of name (host name) bytes that follow,
   and at most 255 bytes of each are written. *)
C9_LengthPrefixExact ==
    (pc = "serialized" /\ serErr = "") =>
        /\ Written[NameAt(log)] = Len(log.player_name)
        /\ Written[HostAt(log)] = Len(log.server_domain)
        /\ Len(Written) <= NameAt(log) + 255 + 11 + 255 + 1

(* C10 as stated: when serialize fails the writer holds exactly the bytes it held
   before the call. *)
C10_FailedWriteLeavesWriter ==
    (pc = "serialized" /\ serErr # "") => writer = before

====
